---------------------------- MODULE Spec2Model ----------------------------
(***************************************************************************)
(* TDHF/TDA analytic nuclear gradients (pyscf/grad/tdrhf.py).              *)
(*                                                                         *)
(* Arrays are functions over 0-based index ranges, as in numpy: a vector   *)
(* is [0..n-1 -> Int], a matrix [0..n-1 -> [0..m-1 -> Int]], a rank-3      *)
(* tensor (3,nao,nao) is [0..2 -> matrix].  Real numbers are modelled by   *)
(* integers; every contraction of the source is carried out term by term.  *)
(* An optional (None-able) Python argument is a sequence of length 0       *)
(* (None) or 1 (the value given).                                          *)
(***************************************************************************)
EXTENDS Integers, Sequences, FiniteSets, TLC

VARIABLES
    mf,      \* reference wavefunction object (td._scf): mo_coeff, mo_energy, mo_occ
    td,      \* bound excited-state solver: xy (one pair per state), singlet
    self,    \* the Gradients driver: de, cphf_max_cycle, cphf_conv_tol, attrs
    last,    \* what the most recent operation on the driver did and returned
    dens     \* output of the most recent Density Assembler evaluation, if any

vars == <<mf, td, self, last, dens>>

-----------------------------------------------------------------------------
(* numpy helpers *)

None == <<>>
Some(v) == <<v>>
IsNone(o) == Len(o) = 0
Val(o) == o[1]

\* An array expression is evaluated once, when it is built (numpy is
\* eager); comparing a function with itself makes TLC tabulate it.
Eager(f) == IF f = f THEN f ELSE f

\* a Python list / tuple literal as a 0-based array
Arr(s) == Eager([i \in 0..(Len(s) - 1) |-> s[i + 1]])
Arr2(s) == Eager([i \in 0..(Len(s) - 1) |-> Arr(s[i + 1])])

RECURSIVE SumFn(_, _, _)
SumFn(f, lo, hi) == IF lo > hi THEN 0 ELSE f[lo] + SumFn(f, lo + 1, hi)

\* sum of f over its whole (0-based) domain
Total(f) == SumFn(f, 0, Cardinality(DOMAIN f) - 1)

NRows(A) == Cardinality(DOMAIN A)
NCols(A) == Cardinality(DOMAIN A[0])

Abs(v) == IF v < 0 THEN -v ELSE v

\* numpy.dot(A, B)
Dot(A, B) ==
    Eager([p \in DOMAIN A |-> [q \in DOMAIN B[0] |->
        Total([k \in DOMAIN B |-> A[p][k] * B[k][q]])]])

\* reduce(numpy.dot, (A, B, C))
Dot3(A, B, C) == Dot(Dot(A, B), C)

\* A.T
Tr(A) == Eager([q \in DOMAIN A[0] |-> [p \in DOMAIN A |-> A[p][q]]])

MAdd(A, B) ==
    Eager([p \in DOMAIN A |-> [q \in DOMAIN A[p] |-> A[p][q] + B[p][q]]])
MSub(A, B) ==
    Eager([p \in DOMAIN A |-> [q \in DOMAIN A[p] |-> A[p][q] - B[p][q]]])
MScale(c, A) ==
    Eager([p \in DOMAIN A |-> [q \in DOMAIN A[p] |-> c * A[p][q]]])
MZeros(n, m) == Eager([p \in 0..(n - 1) |-> [q \in 0..(m - 1) |-> 0]])

\* A[r0:r1, c0:c1]
Block(A, r0, r1, c0, c1) ==
    Eager([p \in 0..(r1 - r0 - 1) |->
            [q \in 0..(c1 - c0 - 1) |-> A[p + r0][q + c0]]])

\* A[r0:r1, c0:c1] = B  (assignment into a copy of A)
SetBlock(A, r0, r1, c0, c1, B) ==
    Eager([p \in DOMAIN A |-> [q \in DOMAIN A[p] |->
        IF p >= r0 /\ p < r1 /\ q >= c0 /\ q < c1 THEN B[p - r0][q - c0]
        ELSE A[p][q]]])

\* numpy.einsum('pq,pq->', A, B)
Contract(A, B) ==
    Total([p \in DOMAIN A |-> Total([q \in DOMAIN A[p] |-> A[p][q] * B[p][q]])])

\* x.reshape(n, m) of a flat Python sequence (row-major)
Reshape(x, n, m) ==
    Eager([i \in 0..(n - 1) |-> [a \in 0..(m - 1) |-> x[i * m + a + 1]]])

\* elementwise x + y, x - y of two flat sequences
VAdd(x, y) == Eager([k \in 1..Len(x) |-> x[k] + y[k]])
VSub(x, y) == Eager([k \in 1..Len(x) |-> x[k] - y[k]])

\* the positions of a 0-based vector that satisfy a mask, in increasing order
\* (boolean-mask indexing v[mask])
RECURSIVE MaskedFrom(_, _, _)
MaskedFrom(v, mask, p) ==
    IF p >= Cardinality(DOMAIN v) THEN <<>>
    ELSE (IF mask[p] THEN <<v[p]>> ELSE <<>>) \o MaskedFrom(v, mask, p + 1)
Masked(v, mask) == Arr(MaskedFrom(v, mask, 0))

-----------------------------------------------------------------------------
(* The molecule and the Integral Provider (external collaborators).        *)
(* MolBig has two atoms and three atomic orbitals (atom 0 carries AO 0,    *)
(* atom 1 carries AOs 1 and 2); MolSmall is the same molecule in a minimal *)
(* basis, one AO per atom.  The integrals are fixed small integer tables   *)
(* with the permutational symmetry of the real ones.                       *)

\* mol.natm and mol.offset_nr_by_atom(): (shl0, shl1, p0, p1) per atom
MolSmall == [natm |-> 2, offset |-> Arr(<< <<0, 1, 0, 1>>, <<1, 2, 1, 2>> >>)]
MolBig == [natm |-> 2, offset |-> Arr(<< <<0, 1, 0, 1>>, <<1, 3, 1, 3>> >>)]

\* mol.nao_nr(): the p1 of the last atom
nao_nr(mol) == mol.offset[mol.natm - 1][4]

Cart == 0..2

\* one-electron "overlap-like" table W[p][q] = W[q][p]
Wtab == Arr2(<< <<2, 1, 0>>, <<1, 1, 1>>, <<0, 1, 2>> >>)

\* two-electron repulsion integral (pq|rs)
ERI(p, q, r, s) == Wtab[p][q] * Wtab[r][s]

\* Coulomb and exchange matrices of one density
get_j(dm) ==
    Eager([p \in DOMAIN dm |-> [q \in DOMAIN dm |->
        Total([r \in DOMAIN dm |-> Total([s \in DOMAIN dm |->
            ERI(p, q, r, s) * dm[s][r]])])]])
get_k(dm) ==
    Eager([p \in DOMAIN dm |-> [q \in DOMAIN dm |->
        Total([r \in DOMAIN dm |-> Total([s \in DOMAIN dm |->
            ERI(p, r, s, q) * dm[r][s]])])]])

\* mf.get_jk(mol, dms, hermi): batched, one (J, K) per density of the list
get_jk(dms) == [vj |-> Eager([n \in DOMAIN dms |-> get_j(dms[n])]),
                vk |-> Eager([n \in DOMAIN dms |-> get_k(dms[n])])]

\* mf.get_jk(mol, dm) for a single density: one J and one K matrix
get_jk_one(dm) == [vj |-> get_j(dm), vk |-> get_k(dm)]

\* nuclear derivative of the bra function of (p q|: not symmetric in p, q
Dtab(x, p, q) == (((x + 1) * (p + 1) + q) % 3) - 1

\* td_grad.get_jk(mol, dms): derivative J/K builds, vj[n][x][p][q]
grad_get_jk(dms) ==
    [vj |-> Eager([n \in DOMAIN dms |-> [x \in Cart |->
        [p \in DOMAIN dms[n] |-> [q \in DOMAIN dms[n] |->
            -Total([r \in DOMAIN dms[n] |-> Total([s \in DOMAIN dms[n] |->
                Dtab(x, p, q) * Wtab[r][s] * dms[n][s][r]])])]]]]),
     vk |-> Eager([n \in DOMAIN dms |-> [x \in Cart |->
        [p \in DOMAIN dms[n] |-> [q \in DOMAIN dms[n] |->
            -Total([r \in DOMAIN dms[n] |-> Total([s \in DOMAIN dms[n] |->
                Dtab(x, p, r) * Wtab[q][s] * dms[n][r][s]])])]]]])]

\* td_grad.hcore_generator(mol)(ia): a fresh (3,nao,nao) tensor per call
hcore_deriv(mol, ia) ==
    LET AO == 0..(nao_nr(mol) - 1)
    IN  Eager([x \in Cart |-> [p \in AO |-> [q \in AO |->
            (((ia + 1) * (x + 1) + p + q) % 3) - 1]]])

\* td_grad.get_ovlp(mol): overlap derivative (3,nao,nao)
get_ovlp(mol) ==
    LET AO == 0..(nao_nr(mol) - 1)
    IN  Eager([x \in Cart |-> [p \in AO |-> [q \in AO |->
            ((x + 2 * p + q) % 3) - 1]]])

\* per-atom nuclear-repulsion gradient and ground-state gradient rows
NucRow(ia) == <<0, 2 * ia - 1, 3 - 6 * ia>>
GroundRow(ia) == <<ia + 1, 0, 7 - 14 * ia>>

\* range(mol.natm) as a Python list
RangeNatm(mol) == Eager([k \in 1..mol.natm |-> k - 1])

\* a numpy array of shape (n,3), and the Python scalar 0 (shape ())
Array(rows) == [shape |-> <<Len(rows), 3>>, rows |-> rows]
Scalar0 == [shape |-> <<>>, rows |-> <<>>]

\* rhf_grad.Gradients.grad_nuc(atmlst=atmlst)
grad_nuc(mol, atmlst) ==
    LET lst == IF IsNone(atmlst) THEN RangeNatm(mol) ELSE Val(atmlst)
    IN  Eager([k \in 1..Len(lst) |-> NucRow(lst[k])])

\* self._scf.nuc_grad_method().kernel(atmlst=atmlst): the ground-state
\* gradient, one row per atom of atmlst (all atoms when atmlst is None)
nuc_grad_method_kernel(mol, atmlst) ==
    LET lst == IF IsNone(atmlst) THEN RangeNatm(mol) ELSE Val(atmlst)
    IN  Array(Eager([k \in 1..Len(lst) |-> GroundRow(lst[k])]))

\* lib.StreamObject.check_sanity(): warns about attributes of the object
\* that are not among its _keys; it never raises and returns the object
check_sanity(obj) ==
    [ok |-> obj.extra = {},
     log |-> IF obj.extra = {} THEN <<>>
             ELSE <<"warn: object does not have attributes in its _keys">>]

-----------------------------------------------------------------------------
(* Response Solver: pyscf.scf.cphf.solve, an iterative linear solver with  *)
(* an iteration cap.  It solves z = mo1base - fvind(z) / (e_a - e_i) by    *)
(* fixed-point iteration from z = mo1base, stops when an iteration changes *)
(* no entry by more than tol, and otherwise gives up after max_cycle       *)
(* iterations, returning the last iterate and logging a warning.           *)

\* cphf_conv_tol is held in units of 1e-8; the iterates are integers
TolUnit == 10^8

\* vj*2 - vk of one (J, K) pair
vj2_vk(jk) == MSub(MScale(2, jk.vj), jk.vk)

\* dm + dm.T and dm - dm.T
Symm(dm) == MAdd(dm, Tr(dm))
AntiSymm(dm) == MSub(dm, Tr(dm))

\* def fvind(x) of kernel: the Fock response to a vir x occ trial vector
fvind(orbv, orbo, x) ==
    Dot3(Tr(orbv), vj2_vk(get_jk_one(Symm(Dot3(orbv, x, Tr(orbo))))), orbo)

MaxOf(S) == CHOOSE m \in S : \A v \in S : v <= m
MaxAbs(A) == MaxOf({Abs(A[p][q]) : p \in DOMAIN A, q \in DOMAIN A[0]})

\* mo1base - v / e_ai, entry by entry
cphf_update(mo1base, v, e_ai) ==
    Eager([a \in DOMAIN v |-> [i \in DOMAIN v[a] |->
        mo1base[a][i] - (v[a][i] \div e_ai[a][i])]])

RECURSIVE cphf_iterate(_, _, _)
\* the convergence test on the new iterate
cphf_check(c, z, znew, cycle) ==
    IF MaxAbs(MSub(znew, z)) <= c.tol \div TolUnit
    THEN [mo1 |-> znew, converged |-> TRUE, ncycle |-> cycle + 1]
    ELSE cphf_iterate(c, znew, cycle + 1)

cphf_iterate(c, z, cycle) ==
    IF cycle >= c.max_cycle
    THEN [mo1 |-> z, converged |-> FALSE, ncycle |-> cycle]
    ELSE cphf_check(c, z,
            cphf_update(c.mo1base, fvind(c.orbv, c.orbo, z), c.e_ai), cycle)

\* e_ai = e_a[:,None] - e_i, the orbital-energy denominators
e_ai_of(e_a, e_i) ==
    Eager([a \in DOMAIN e_a |-> [i \in DOMAIN e_i |-> e_a[a] - e_i[i]]])

\* mo1base = -h1 / e_ai
mo1base_of(h1, e_ai) ==
    Eager([a \in DOMAIN h1 |-> [i \in DOMAIN h1[a] |->
        (-h1[a][i]) \div e_ai[a][i]]])

cphf_problem(orbv, orbo, h1, e_ai, max_cycle, tol) ==
    [orbv |-> orbv, orbo |-> orbo, e_ai |-> e_ai,
     mo1base |-> mo1base_of(h1, e_ai), max_cycle |-> max_cycle, tol |-> tol]

cphf_report(c, r) ==
    [mo1 |-> r.mo1, converged |-> r.converged, ncycle |-> r.ncycle,
     max_cycle |-> c.max_cycle, tol |-> c.tol,
     log |-> IF r.converged THEN <<>> ELSE <<"warn: CPHF not converged">>]

cphf_run(c) == cphf_report(c, cphf_iterate(c, c.mo1base, 0))

\* cphf.solve(fvind, mo_energy, mo_occ, h1, max_cycle=, tol=): the occupied
\* and the virtual energies are picked by the masks mo_occ > 0, mo_occ == 0
cphf_solve(orbv, orbo, mo_energy, mo_occ, h1, max_cycle, tol) ==
    cphf_run(cphf_problem(orbv, orbo, h1,
        e_ai_of(Masked(mo_energy, [p \in DOMAIN mo_occ |-> mo_occ[p] = 0]),
                Masked(mo_energy, [p \in DOMAIN mo_occ |-> mo_occ[p] > 0])),
        max_cycle, tol))

-----------------------------------------------------------------------------
(* kernel(td_grad, x_y, singlet, atmlst): the electronic gradient.  The    *)
(* body is a chain of stages in the order of the source; each stage reads  *)
(* the local variables assigned so far (a record) and adds its own.        *)

\* nocc = (mo_occ>0).sum()
nocc_of(mo_occ) == Cardinality({p \in DOMAIN mo_occ : mo_occ[p] > 0})

\* xpy = (x+y).reshape(nocc,nvir).T ; xmy = (x-y).reshape(nocc,nvir).T
xpy_of(x, y, nocc, nvir) == Tr(Reshape(VAdd(x, y), nocc, nvir))
xmy_of(x, y, nocc, nvir) == Tr(Reshape(VSub(x, y), nocc, nvir))

\* dvv = einsum('ai,bi->ab', xpy, xpy) + einsum('ai,bi->ab', xmy, xmy)
dvv_of(xpy, xmy) ==
    Eager([a \in DOMAIN xpy |-> [b \in DOMAIN xpy |->
        Total([i \in DOMAIN xpy[a] |-> xpy[a][i] * xpy[b][i]])
        + Total([i \in DOMAIN xmy[a] |-> xmy[a][i] * xmy[b][i]])]])

\* variant: doo with the sign of dvv
doo_of_positive(xpy, xmy) ==
    Eager([i \in DOMAIN xpy[0] |-> [j \in DOMAIN xpy[0] |->
        Total([a \in DOMAIN xpy |-> xpy[a][i] * xpy[a][j]])
        + Total([a \in DOMAIN xmy |-> xmy[a][i] * xmy[a][j]])]])

\* doo = -einsum('ai,aj->ij', xpy, xpy) - einsum('ai,aj->ij', xmy, xmy)
doo_of(xpy, xmy) ==
    Eager([i \in DOMAIN xpy[0] |-> [j \in DOMAIN xpy[0] |->
        (-Total([a \in DOMAIN xpy |-> xpy[a][i] * xpy[a][j]]))
        - Total([a \in DOMAIN xmy |-> xmy[a][i] * xmy[a][j]])]])

\* orbo = mo_coeff[:,:nocc] ; orbv = mo_coeff[:,nocc:]
orbo_of(mo_coeff, nocc) == Block(mo_coeff, 0, NRows(mo_coeff), 0, nocc)
orbv_of(mo_coeff, nocc) ==
    Block(mo_coeff, 0, NRows(mo_coeff), nocc, NCols(mo_coeff))

\* lines 48-50, 54-55: the sizes and the two orbital blocks
partition(mo_coeff, mo_occ) ==
    [nao |-> NRows(mo_coeff), nmo |-> NCols(mo_coeff),
     nocc |-> nocc_of(mo_occ), nvir |-> NCols(mo_coeff) - nocc_of(mo_occ),
     orbv |-> orbv_of(mo_coeff, nocc_of(mo_occ)),
     orbo |-> orbo_of(mo_coeff, nocc_of(mo_occ))]

\* lines 51-53
amplitudes(P, x_y) ==
    P @@ [xpy |-> xpy_of(x_y[1], x_y[2], P.nocc, P.nvir),
          xmy |-> xmy_of(x_y[1], x_y[2], P.nocc, P.nvir)]

\* lines 57-58
densities_mo(P) ==
    P @@ [dvv |-> dvv_of(P.xpy, P.xmy), doo |-> doo_of(P.xpy, P.xmy)]

\* lines 59-62
densities_ao(P) ==
    P @@ [dmzvop |-> Dot3(P.orbv, P.xpy, Tr(P.orbo)),
          dmzvom |-> Dot3(P.orbv, P.xmy, Tr(P.orbo)),
          dmzoo |-> MAdd(Dot3(P.orbo, P.doo, Tr(P.orbo)),
                         Dot3(P.orbv, P.dvv, Tr(P.orbv)))]

\* Density Assembler (lines 48-62)
assemble(mo_coeff, mo_occ, x_y) ==
    densities_ao(densities_mo(amplitudes(partition(mo_coeff, mo_occ), x_y)))

\* lines 43-62: the locals after the Density Assembler
kernel_locals(td_grad, x_y, singlet, atmlst, jkeep) ==
    assemble(td_grad._td._scf.mo_coeff, td_grad._td._scf.mo_occ, x_y)
    @@ [td_grad |-> td_grad, mol |-> td_grad.mol,
        mo_coeff |-> td_grad._td._scf.mo_coeff,
        mo_energy |-> td_grad._td._scf.mo_energy,
        mo_occ |-> td_grad._td._scf.mo_occ,
        singlet |-> singlet, atmlst |-> atmlst, jkeep |-> jkeep]

\* the J matrices of a batched get_jk result multiplied channel by channel
\* by jkeep (1: as returned, 0: replaced by zero); vj0 keeps them as returned
keep_j(jk, jkeep) ==
    [vj0 |-> jk.vj, vk |-> jk.vk,
     vj |-> Eager([n \in DOMAIN jk.vj |-> MScale(jkeep[n + 1], jk.vj[n])])]

\* line 64: vj, vk = mf.get_jk(mol, (dmzoo, dmzvop+dmzvop.T, dmzvom-dmzvom.T))
first_jk(K) ==
    K @@ keep_j(get_jk(Arr(<<K.dmzoo, Symm(K.dmzvop), AntiSymm(K.dmzvom)>>)),
                K.jkeep)

\* variant: the singlet expression is used for every spin
veff_mop_always_singlet(singlet, vj1, vk1) == MSub(MScale(2, vj1), vk1)

\* lines 67-70: the effective potential of the (X+Y) coupling density
veff_mop(singlet, vj1, vk1) ==
    IF singlet THEN MSub(MScale(2, vj1), vk1) ELSE MScale(-1, vk1)

\* lines 65, 67-71, 74-75: the three effective-Fock intermediates
veff0(K) ==
    K @@ [veff0doo |-> MSub(MScale(2, K.vj[0]), K.vk[0]),
          veff0mop |-> Dot3(Tr(K.mo_coeff),
                            veff_mop(K.singlet, K.vj[1], K.vk[1]), K.mo_coeff),
          veff0mom |-> Dot3(Tr(K.mo_coeff), MScale(-1, K.vk[2]), K.mo_coeff)]

\* einsum('ki,ai->ak', V[:nocc,:nocc], X)
oo_x(V, X, nocc) ==
    Eager([a \in DOMAIN X |-> [k \in 0..(nocc - 1) |->
        Total([i \in 0..(nocc - 1) |-> V[k][i] * X[a][i]])]])
\* einsum('ac,ai->ci', V[nocc:,nocc:], X)
vv_x(V, X, nocc) ==
    Eager([c \in DOMAIN X |-> [i \in 0..(nocc - 1) |->
        Total([a \in DOMAIN X |-> V[nocc + a][nocc + c] * X[a][i]])]])
\* einsum('ak,ai->ki', V[nocc:,:nocc], X)
vo_oo(V, X, nocc) ==
    Eager([k \in 0..(nocc - 1) |-> [i \in 0..(nocc - 1) |->
        Total([a \in DOMAIN X |-> V[nocc + a][k] * X[a][i]])]])
\* einsum('ci,ai->ac', V[nocc:,:nocc], X)
vo_vv(V, X, nocc) ==
    Eager([a \in DOMAIN X |-> [c \in DOMAIN X |->
        Total([i \in 0..(nocc - 1) |-> V[nocc + c][i] * X[a][i]])]])

\* lines 66, 72-73, 76-77: the right-hand side of the Z-vector equation
rhs_wvo(K) ==
    K @@ [wvo |->
        MAdd(MSub(MAdd(MSub(
            MScale(2, Dot3(Tr(K.orbv), K.veff0doo, K.orbo)),
            MScale(2, oo_x(K.veff0mop, K.xpy, K.nocc))),
            MScale(2, vv_x(K.veff0mop, K.xpy, K.nocc))),
            MScale(2, oo_x(K.veff0mom, K.xmy, K.nocc))),
            MScale(2, vv_x(K.veff0mom, K.xmy, K.nocc)))]

\* variant: the solver is left at the class defaults
solve_z1_class_defaults(td_grad, orbv, orbo, mo_energy, mo_occ, wvo) ==
    cphf_solve(orbv, orbo, mo_energy, mo_occ, wvo, 20, 1)

\* lines 82-84: the Z-vector solve with the driver's convergence controls
solve_z1(td_grad, orbv, orbo, mo_energy, mo_occ, wvo) ==
    cphf_solve(orbv, orbo, mo_energy, mo_occ, wvo,
               td_grad.cphf_max_cycle, td_grad.cphf_conv_tol)

z_vector(K) ==
    K @@ [sol |-> solve_z1(K.td_grad, K.orbv, K.orbo,
                           K.mo_energy, K.mo_occ, K.wvo)]

\* lines 85, 88: z1 and its AO form
z1_ao(K) ==
    K @@ [z1 |-> K.sol.mo1, z1ao |-> Dot3(K.orbv, K.sol.mo1, Tr(K.orbo))]

\* lines 89-90: veff = vj*2 - vk of z1ao
veff_z(K) == K @@ [veffz |-> vj2_vk(get_jk_one(K.z1ao))]

\* lines 101-103
zeta_of(mo_energy, nocc) ==
    Eager([p \in DOMAIN mo_energy |-> [q \in DOMAIN mo_energy |->
        IF p >= nocc /\ q < nocc THEN mo_energy[q]
        ELSE IF p < nocc /\ q >= nocc THEN mo_energy[q]
        ELSE (mo_energy[p] + mo_energy[q]) \div 2]])

\* lines 104-108
dm1_of(doo, dvv, z1, nocc, nmo) ==
    MAdd(SetBlock(SetBlock(SetBlock(MZeros(nmo, nmo),
            0, nocc, 0, nocc, doo),
            nocc, nmo, nocc, nmo, dvv),
            nocc, nmo, 0, nocc, z1),
         [p \in 0..(nmo - 1) |-> [q \in 0..(nmo - 1) |->
            IF p = q /\ p < nocc THEN 2 ELSE 0]])

\* elementwise product A*B
MMul(A, B) ==
    Eager([p \in DOMAIN A |-> [q \in DOMAIN A[p] |-> A[p][q] * B[p][q]]])

\* lines 92-99: im0 in the MO basis, block by block
im0_mo(K) ==
    K @@ [im0mo |->
        SetBlock(SetBlock(SetBlock(MZeros(K.nmo, K.nmo),
            0, K.nocc, 0, K.nocc,
                MAdd(MAdd(Dot3(Tr(K.orbo), MAdd(K.veff0doo, K.veffz), K.orbo),
                          vo_oo(K.veff0mop, K.xpy, K.nocc)),
                     vo_oo(K.veff0mom, K.xmy, K.nocc))),
            K.nocc, K.nmo, K.nocc, K.nmo,
                MAdd(vo_vv(K.veff0mop, K.xpy, K.nocc),
                     vo_vv(K.veff0mom, K.xmy, K.nocc))),
            K.nocc, K.nmo, 0, K.nocc,
                MAdd(MScale(2, oo_x(K.veff0mop, K.xpy, K.nocc)),
                     MScale(2, oo_x(K.veff0mom, K.xmy, K.nocc))))]

\* lines 101-117: im0 in the AO basis and the derivative J/K builds
im0_ao(K) ==
    K @@ [im0 |-> Dot3(K.mo_coeff,
                       MAdd(K.im0mo,
                            MMul(zeta_of(K.mo_energy, K.nocc),
                                 dm1_of(K.doo, K.dvv, K.z1, K.nocc, K.nmo))),
                       Tr(K.mo_coeff)),
          s1 |-> get_ovlp(K.mol),
          dmz1doo |-> MAdd(K.z1ao, K.dmzoo),
          oo0 |-> Dot(K.orbo, Tr(K.orbo))]

\* lines 120-123: singlet: vj*2 - vk; else vstack((vj[:2]*2-vk[:2], -vk[2:]))
vhf1_of(singlet, gjk) ==
    Eager([n \in 0..3 |-> [x \in Cart |->
        IF singlet \/ n < 2
        THEN MSub(MScale(2, gjk.vj[n][x]), gjk.vk[n][x])
        ELSE MScale(-1, gjk.vk[n][x])]])

\* lines 116-123
deriv_jk(K) ==
    K @@ [vhf1 |-> vhf1_of(K.singlet,
            grad_get_jk(Arr(<<K.oo0, Symm(K.dmz1doo),
                              Symm(K.dmzvop), AntiSymm(K.dmzvom)>>)))]

\* lines 134-136: h1ao = hcore_deriv(ia)
\* h1ao[:,p0:p1] += vhf1[0,:,p0:p1]
\* h1ao[:,:,p0:p1] += vhf1[0,:,p0:p1].transpose(0,2,1)
h1ao_of(h0, vhf10, p0, p1) ==
    Eager([x \in Cart |-> [p \in DOMAIN h0[x] |-> [q \in DOMAIN h0[x] |->
        h0[x][p][q]
        + (IF p >= p0 /\ p < p1 THEN vhf10[x][p][q] ELSE 0)
        + (IF q >= p0 /\ q < p1 THEN vhf10[x][q][p] ELSE 0)]]])

\* einsum('ij,ij->', T[p0:p1], D[p0:p1]) for one cartesian component
rowsum(T, D, p0, p1) ==
    Total([i \in 0..(p1 - p0 - 1) |-> Total([j \in DOMAIN D |->
        T[i + p0][j] * D[i + p0][j]])])
\* einsum('ji,ij->', T[p0:p1], D[:,p0:p1]) for one cartesian component
colsum(T, D, p0, p1) ==
    Total([j \in 0..(p1 - p0 - 1) |-> Total([i \in DOMAIN D |->
        T[j + p0][i] * D[i][j + p0]])])

\* lines 138-148: the nine contractions that make de[k]
contract_row(K, h1ao, p0, p1) ==
    Eager([c \in 1..3 |->
        Contract(h1ao[c - 1], K.oo0) * 2
        + Contract(h1ao[c - 1], K.dmz1doo)
        - rowsum(K.s1[c - 1], K.im0, p0, p1)
        - colsum(K.s1[c - 1], K.im0, p0, p1)
        + rowsum(K.vhf1[1][c - 1], K.oo0, p0, p1)
        + rowsum(K.vhf1[2][c - 1], K.dmzvop, p0, p1) * 2
        + rowsum(K.vhf1[3][c - 1], K.dmzvom, p0, p1) * 2
        + colsum(K.vhf1[2][c - 1], K.dmzvop, p0, p1) * 2
        - colsum(K.vhf1[3][c - 1], K.dmzvom, p0, p1) * 2])

\* one pass of the loop body, lines 131-148: the row of atom ia, from the
\* AO range (p0, p1) of that atom in mol.offset_nr_by_atom()
atom_row(K, ia) ==
    contract_row(K,
        h1ao_of(hcore_deriv(K.mol, ia), K.vhf1[0],
                K.mol.offset[ia][3], K.mol.offset[ia][4]),
        K.mol.offset[ia][3], K.mol.offset[ia][4])

\* variant: the list is walked from its end
RECURSIVE atom_loop_reversed(_, _, _, _)
atom_loop_reversed(K, atmlst, k, acc) ==
    IF k > Len(atmlst) THEN acc
    ELSE atom_loop_reversed(K, atmlst, k + 1,
            [de |-> [acc.de EXCEPT
                        ![k] = atom_row(K, atmlst[Len(atmlst) + 1 - k])],
             visited |-> Append(acc.visited, atmlst[Len(atmlst) + 1 - k])])

\* for k, ia in enumerate(atmlst): de[k] = ...   (k counts from 1 here)
RECURSIVE atom_loop(_, _, _, _)
atom_loop(K, atmlst, k, acc) ==
    IF k > Len(atmlst) THEN acc
    ELSE atom_loop(K, atmlst, k + 1,
            [de |-> [acc.de EXCEPT ![k] = atom_row(K, atmlst[k])],
             visited |-> Append(acc.visited, atmlst[k])])

\* lines 126-129: default the atom list, allocate de = zeros((len(atmlst),3))
atom_list(mol, atmlst) ==
    IF IsNone(atmlst) THEN RangeNatm(mol) ELSE Val(atmlst)

de_zeros(lst) ==
    [de |-> Eager([k \in 1..Len(lst) |-> <<0, 0, 0>>]), visited |-> <<>>]

\* lines 126-151
contract_atoms(K) ==
    K @@ [out |-> atom_loop(K, atom_list(K.mol, K.atmlst), 1,
                            de_zeros(atom_list(K.mol, K.atmlst)))]

\* what the caller and the log see of one run
kernel_result(K) ==
    [de |-> K.out.de, visited |-> K.out.visited,
     cphf |-> [max_cycle |-> K.sol.max_cycle, tol |-> K.sol.tol,
               converged |-> K.sol.converged, ncycle |-> K.sol.ncycle],
     log |-> K.sol.log, z1 |-> K.z1, wvo |-> K.wvo,
     vj |-> K.vj0, vk |-> K.vk,
     veff0doo |-> K.veff0doo, veff0mop |-> K.veff0mop,
     veff0mom |-> K.veff0mom]

\* kernel with the J matrices of the first batched get_jk call (line 64)
\* multiplied channel by channel by jkeep
kernel_j(td_grad, x_y, singlet, atmlst, jkeep) ==
    kernel_result(contract_atoms(deriv_jk(im0_ao(im0_mo(veff_z(z1_ao(
        z_vector(rhs_wvo(veff0(first_jk(
            kernel_locals(td_grad, x_y, singlet, atmlst, jkeep))))))))))))

\* def kernel(td_grad, x_y, singlet=True, atmlst=None, ...)
kernel(td_grad, x_y, singlet, atmlst) ==
    kernel_j(td_grad, x_y, singlet, atmlst, <<1, 1, 1>>)

-----------------------------------------------------------------------------
(* class Gradients(rhf_grad.Gradients): the driver.                        *)

\* class attributes: cphf_max_cycle = 20, cphf_conv_tol = 1e-8 (the
\* tolerance is held in units of 1e-8, see TolUnit)
Gradients_cphf_max_cycle == 20
Gradients_cphf_conv_tol == 1

\* Gradients.__init__(self, td): extra holds the attributes set on the
\* instance later that are not in _keys
Gradients_init(td_) ==
    [mol |-> td_.mol, de |-> Scalar0,
     cphf_max_cycle |-> Gradients_cphf_max_cycle,
     cphf_conv_tol |-> Gradients_cphf_conv_tol,
     extra |-> {}]

\* the instance together with the objects it references (self._td, self._scf)
obj(self_, td_, mf_) ==
    [mol |-> self_.mol, de |-> self_.de,
     cphf_max_cycle |-> self_.cphf_max_cycle,
     cphf_conv_tol |-> self_.cphf_conv_tol,
     extra |-> self_.extra,
     _td |-> [_scf |-> mf_, xy |-> td_.xy, singlet |-> td_.singlet]]

\* def grad_elec(self, xy, singlet, atmlst=None)
grad_elec(o, xy, singlet, atmlst) == kernel(o, xy, singlet, atmlst)

\* numpy addition of two (n,3) arrays
RowsAdd(a, b) ==
    Eager([k \in 1..Len(a) |-> [c \in 1..3 |-> a[k][c] + b[k][c]]])

\* The local frame of one Gradients.kernel call: the instance, the
\* arguments, the local de, the value to return, the steps taken so far
\* and what was written to the log.
frame0(o, xy, state, singlet, atmlst) ==
    [obj |-> o, xy |-> xy, state |-> state, singlet |-> singlet,
     atmlst |-> atmlst, de |-> Scalar0, ret |-> Scalar0, cphf |-> None,
     trace |-> <<>>, log |-> <<>>]

\* variant: the ground-state call loses the caller's atom list
ground_state_all_atoms(f) ==
    [f EXCEPT
        !.log = Append(@, "warn: state=0 found in the input"),
        !.ret = nuc_grad_method_kernel(f.obj.mol, None),
        !.trace = @ \o <<"warn", "nuc_grad_method.kernel">>]

\* variant: the ground-state gradient is also stored in self.de
ground_state_stores(f) ==
    [f EXCEPT
        !.log = Append(@, "warn: state=0 found in the input"),
        !.obj = [@ EXCEPT !.de = nuc_grad_method_kernel(f.obj.mol, f.atmlst)],
        !.ret = nuc_grad_method_kernel(f.obj.mol, f.atmlst),
        !.trace = @ \o <<"warn", "nuc_grad_method.kernel">>]

\* lines 194-197: state == 0
ground_state(f) ==
    [f EXCEPT
        !.log = Append(@, "warn: state=0 found in the input"),
        !.ret = nuc_grad_method_kernel(f.obj.mol, f.atmlst),
        !.trace = @ \o <<"warn", "nuc_grad_method.kernel">>]

\* variant: the state index is ignored, the first pair is always taken
step_defaults_first_pair(f) ==
    [f EXCEPT
        !.xy = IF IsNone(f.xy) THEN Some(f.obj._td.xy[0]) ELSE @,
        !.singlet = IF IsNone(f.singlet) THEN Some(f.obj._td.singlet) ELSE @,
        !.atmlst = IF IsNone(f.atmlst) THEN Some(RangeNatm(f.obj.mol)) ELSE @,
        !.trace = Append(@, "defaults")]

\* lines 200-202
step_defaults(f) ==
    [f EXCEPT
        !.xy = IF IsNone(f.xy) THEN Some(f.obj._td.xy[f.state - 1]) ELSE @,
        !.singlet = IF IsNone(f.singlet) THEN Some(f.obj._td.singlet) ELSE @,
        !.atmlst = IF IsNone(f.atmlst) THEN Some(RangeNatm(f.obj.mol)) ELSE @,
        !.trace = Append(@, "defaults")]

\* line 203: self.check_sanity()
step_check_sanity(f) ==
    [f EXCEPT
        !.log = @ \o check_sanity(f.obj).log,
        !.trace = Append(@, "check_sanity")]

\* line 204: de = self.grad_elec(xy, singlet, atmlst)
took_grad_elec(f, r) ==
    [f EXCEPT
        !.de = Array(r.de),
        !.cphf = Some(r.cphf),
        !.log = @ \o r.log,
        !.trace = Append(@, "grad_elec")]

step_grad_elec(f) ==
    took_grad_elec(f, grad_elec(f.obj, Val(f.xy), Val(f.singlet), f.atmlst))

\* line 205, right-hand side: de + self.grad_nuc(atmlst=atmlst)
step_grad_nuc(f) ==
    [f EXCEPT
        !.de = Array(RowsAdd(f.de.rows, grad_nuc(f.obj.mol, f.atmlst))),
        !.trace = Append(@, "grad_nuc")]

\* variant: the new gradient is added to the stored one (self.de += de)
step_store_accumulate(f) ==
    [f EXCEPT
        !.obj = [@ EXCEPT !.de = IF f.obj.de.shape = f.de.shape
                                 THEN Array(RowsAdd(f.obj.de.rows, f.de.rows))
                                 ELSE f.de],
        !.ret = IF f.obj.de.shape = f.de.shape
                THEN Array(RowsAdd(f.obj.de.rows, f.de.rows))
                ELSE f.de,
        !.trace = Append(@, "store")]

\* lines 205 and 215: self.de = de = ... ; return self.de
step_store(f) ==
    [f EXCEPT
        !.obj = [@ EXCEPT !.de = f.de],
        !.ret = f.de,
        !.trace = Append(@, "store")]

\* variant: a failed sanity check stops the call before the gradient is made
Gradients_kernel_gated(o, xy, state, singlet, atmlst) ==
    IF state = 0
    THEN ground_state(frame0(o, xy, state, singlet, atmlst))
    ELSE IF check_sanity(o).ok
    THEN step_store(step_grad_nuc(step_grad_elec(step_check_sanity(
            step_defaults(frame0(o, xy, state, singlet, atmlst))))))
    ELSE [step_check_sanity(
            step_defaults(frame0(o, xy, state, singlet, atmlst)))
          EXCEPT !.ret = o.de]

\* def kernel(self, xy=None, state=1, singlet=None, atmlst=None)
Gradients_kernel(o, xy, state, singlet, atmlst) ==
    IF state = 0
    THEN ground_state(frame0(o, xy, state, singlet, atmlst))
    ELSE step_store(step_grad_nuc(step_grad_elec(step_check_sanity(
            step_defaults(frame0(o, xy, state, singlet, atmlst))))))

-----------------------------------------------------------------------------
(* The driver as a state machine: one instance bound to a two-orbital      *)
(* reference (one occupied, one virtual orbital) on the molecule MolSmall. *)

\* number of excited states the bound solver holds (len(td.xy))
NStates == 2

\* the solver's amplitude pair of excited state n = 1, 2, ...: (X, Y), each
\* a flat vector of nocc*nvir entries
XYPair(n) == << <<2 * n - 1>>, <<n - 1>> >>
XYList == [n \in 1..NStates |-> XYPair(n)]

\* an amplitude pair a caller passes explicitly; it is none of the solver's
XYGiven == << <<2>>, <<-1>> >>

MfSmall ==
    [mo_coeff |-> Arr2(<< <<1, 0>>, <<1, 1>> >>),
     mo_energy |-> Arr(<<-20, 10>>),
     mo_occ |-> Arr(<<2, 0>>)]

\* the bound solver; Init binds a triplet one, whose flag differs from the
\* default singlet=True in the signature of the module-level kernel
TdSmall(singlet) == [mol |-> MolSmall, xy |-> Arr(XYList), singlet |-> singlet]

Init ==
    /\ mf = MfSmall
    /\ td = TdSmall(FALSE)
    /\ self = Gradients_init(td)
    /\ last = [op |-> "init"]
    /\ dens = <<>>

\* READY: bound, no gradient stored yet; COMPUTED: self.de holds a gradient
DriverState(self_) == IF self_.de = Scalar0 THEN "READY" ELSE "COMPUTED"

\* g.kernel(xy=xy, state=state, singlet=singlet, atmlst=atmlst); last keeps
\* the arguments, the driver state the call found, and what the call did
Kernel(xy, state, singlet, atmlst) ==
    \E f \in {Gradients_kernel(obj(self, td, mf), xy, state, singlet, atmlst)} :
        /\ self' = [self EXCEPT !.de = f.obj.de]
        /\ last' = [op |-> "kernel", xy |-> xy, state |-> state,
                    singlet |-> singlet, atmlst |-> atmlst,
                    before |-> DriverState(self),
                    ret |-> f.ret, cphf |-> f.cphf,
                    trace |-> f.trace, log |-> f.log]
        /\ UNCHANGED <<mf, td, dens>>

\* g.foo = ... : the caller sets an attribute the class does not declare
SetAttr ==
    /\ self.extra = {}
    /\ self' = [self EXCEPT !.extra = {"foo"}]
    /\ last' = [op |-> "setattr"]
    /\ UNCHANGED <<mf, td, dens>>

Next ==
    \/ \E xy \in {None, Some(XYGiven)}, state \in 0..NStates,
          singlet \in {None, Some(TRUE), Some(FALSE)},
          atmlst \in {None, Some(<<1>>)} :
            Kernel(xy, state, singlet, atmlst)
    \/ SetAttr

Spec == Init /\ [][Next]_vars

-----------------------------------------------------------------------------
(* Properties of the driver (specification Spec).                          *)

SanityWarning == "warn: object does not have attributes in its _keys"

\* the arguments the last kernel() call is specified to work with
EffXY == IF last.xy = None THEN XYList[last.state] ELSE Val(last.xy)
EffSinglet == IF last.singlet = None THEN td.singlet ELSE Val(last.singlet)
EffAtoms ==
    IF last.atmlst = None THEN [k \in 1..td.mol.natm |-> k - 1]
    ELSE Val(last.atmlst)

\* electronic gradient plus nuclear-repulsion gradient for the effective
\* arguments, computed directly
ExpectedGradient ==
    Array(RowsAdd(
        kernel(obj(self, td, mf), EffXY, EffSinglet, Some(EffAtoms)).de,
        [k \in 1..Len(EffAtoms) |-> NucRow(EffAtoms[k])]))

\* C1: a kernel() call with state = 0 returns exactly the reference
\* method's ground-state gradient for the same atmlst, whatever xy and
\* singlet are, and runs none of the excited-state steps: no sanity check,
\* no grad_elec / CPHF solve, no nuclear-repulsion addition.
C1_GroundStateBypass ==
    (last.op = "kernel" /\ last.state = 0) =>
        /\ last.ret = nuc_grad_method_kernel(td.mol, last.atmlst)
        /\ last.ret.rows = [k \in 1..Len(EffAtoms) |-> GroundRow(EffAtoms[k])]
        /\ last.trace = <<"warn", "nuc_grad_method.kernel">>
        /\ last.cphf = None
        /\ \A i \in 1..Len(last.log) : last.log[i] # SanityWarning

C1_Witness ==
    /\ last.op = "kernel" /\ last.state = 0
    /\ last.xy # None /\ last.singlet # None /\ last.atmlst = Some(<<1>>)
    /\ self.extra # {}

\* C2: a kernel() call returns what the same call returns on a freshly
\* constructed driver, whatever calls came before it: the stored de is
\* replaced, never accumulated, and the Z-vector is solved in every call
\* with state # 0.
C2_Idempotent ==
    last.op = "kernel" =>
        /\ last.ret = Gradients_kernel(obj(Gradients_init(td), td, mf),
                        last.xy, last.state, last.singlet, last.atmlst).ret
        /\ (last.state # 0 =>
                /\ last.cphf # None
                /\ Val(last.cphf).ncycle >= 1
                /\ self.de = last.ret)

C2_Witness ==
    /\ last.op = "kernel" /\ last.state # 0
    /\ last.before = "COMPUTED"
    /\ last.ret.shape = <<2, 3>>

\* C3 as stated: the driver is READY (de = 0) after construction and after
\* every kernel() call, whatever its state argument, the stored de is the
\* array the call returned.
C3_StoredIsReturned ==
    /\ last.op = "init" => DriverState(self) = "READY"
    /\ last.op = "kernel" => self.de = last.ret

\* C3, amended: the driver is READY (de = 0) after construction; a kernel()
\* call with state # 0 leaves it COMPUTED with de the array returned; a
\* kernel() call with state = 0 leaves the stored de as it was.
C3_StateMachine ==
    /\ self.de = Scalar0
    /\ [][last'.op = "kernel" =>
            IF last'.state = 0
            THEN self' = self /\ last'.before = DriverState(self')
            ELSE self'.de = last'.ret /\ DriverState(self') = "COMPUTED"]_vars

C3_Witness ==
    /\ last.op = "kernel" /\ last.state = 0
    /\ last.before = "COMPUTED"
    /\ self.de # last.ret

\* C6: in a kernel() call with state # 0 an omitted xy is the solver's pair
\* number `state` counted from 1, an omitted singlet is the solver's flag,
\* an omitted atmlst is all atoms 0..natm-1; an argument that is given is
\* used as passed, and with xy given the state value does not matter.
C6_Defaults ==
    (last.op = "kernel" /\ last.state # 0) => last.ret = ExpectedGradient

C6_Witness ==
    /\ last.op = "kernel" /\ last.state = NStates
    /\ last.xy = None /\ last.singlet = None /\ last.atmlst = None
    /\ ~td.singlet

\* C8: a kernel() call with state # 0 takes the steps defaulting, sanity
\* check, grad_elec, grad_nuc addition (same atmlst), store-and-return, in
\* this order; a failed sanity check is only a logged warning and the
\* gradient is still computed, stored and returned.
C8_StepOrder ==
    (last.op = "kernel" /\ last.state # 0) =>
        /\ last.trace = <<"defaults", "check_sanity", "grad_elec",
                          "grad_nuc", "store">>
        /\ (self.extra # {}) <=>
                (\E i \in 1..Len(last.log) : last.log[i] = SanityWarning)
        /\ last.ret = ExpectedGradient
        /\ self.de = last.ret

C8_Witness ==
    /\ last.op = "kernel" /\ last.state # 0
    /\ self.extra # {}
    /\ last.ret.shape = <<Len(EffAtoms), 3>>
    /\ \E i \in 1..Len(last.log) : last.log[i] = SanityWarning

-----------------------------------------------------------------------------
(* The electronic gradient on its own: one Gradients.grad_elec evaluation  *)
(* per behaviour, on the three-orbital reference (MolBig), after the       *)
(* caller has or has not overridden the CPHF controls of the instance.     *)

MfBig(occ) ==
    [mo_coeff |-> Arr2(<< <<1, 0, 0>>, <<1, 1, 0>>, <<0, 0, 1>> >>),
     mo_energy |-> Arr(<<-20, 10, 30>>),
     mo_occ |-> Arr(occ)]

\* amplitude pairs (X, Y) with nocc*nvir = 2 entries each; the second has
\* Y = 0 (Tamm-Dancoff)
XYBig ==
    << << <<1, 0>>, <<0, 1>> >>,
       << <<1, -1>>, <<0, 0>> >>,
       << <<2, 1>>, <<1, 0>> >> >>

TdBig == [mol |-> MolBig, xy |-> Arr(XYBig), singlet |-> TRUE]

\* the atom lists a caller passes: none, empty, one atom, both atoms in
\* either order, an atom twice
AtomLists ==
    {None, Some(<<>>), Some(<<1>>), Some(<<0, 1>>), Some(<<1, 0>>),
     Some(<<1, 1, 0>>)}

\* largest cphf_max_cycle a caller sets on the instance
MaxCycleSet == 2

InitElec ==
    /\ mf \in {MfBig(<<2, 0, 0>>), MfBig(<<2, 2, 0>>)}
    /\ td = TdBig
    /\ self = Gradients_init(td)
    /\ last = [op |-> "init"]
    /\ dens = <<>>

\* g.cphf_max_cycle = max_cycle; g.cphf_conv_tol = tol  (before the call)
SetCphf(max_cycle, tol) ==
    /\ last.op # "grad_elec"
    /\ self' = [self EXCEPT !.cphf_max_cycle = max_cycle,
                            !.cphf_conv_tol = tol]
    /\ last' = [op |-> "set_cphf"]
    /\ UNCHANGED <<mf, td, dens>>

\* g.grad_elec(xy, singlet, atmlst)
GradElec(xy, singlet, atmlst) ==
    /\ last.op # "grad_elec"
    /\ \E r \in {grad_elec(obj(self, td, mf), xy, singlet, atmlst)} :
            last' = r @@ [op |-> "grad_elec", xy |-> xy,
                          singlet |-> singlet, atmlst |-> atmlst]
    /\ UNCHANGED <<mf, td, self, dens>>

NextElec ==
    \/ \E max_cycle \in 1..MaxCycleSet, tol \in {1, TolUnit} :
            SetCphf(max_cycle, tol)
    \/ \E n \in 1..Len(XYBig), singlet \in BOOLEAN, atmlst \in AtomLists :
            GradElec(XYBig[n], singlet, atmlst)

SpecElec == InitElec /\ [][NextElec]_vars

\* the atoms the last grad_elec call is specified to cover
ElecAtoms ==
    IF last.atmlst = None THEN [k \in 1..td.mol.natm |-> k - 1]
    ELSE Val(last.atmlst)

\* the last grad_elec call made again with the first get_jk call's J
\* matrices multiplied by jkeep
Rerun(jkeep) ==
    kernel_j(obj(self, td, mf), last.xy, last.singlet, last.atmlst, jkeep)

\* C.T * V * C
ToMO(V) == Dot3(Tr(mf.mo_coeff), V, mf.mo_coeff)

\* C4 as stated: for a triplet no effective-Fock intermediate has a Coulomb
\* part, so the gradient is the same with every J matrix of the first
\* get_jk call replaced by zero; for a singlet veff0mop is 2J - K.
C4_NoCoulombInTriplet ==
    last.op = "grad_elec" =>
        IF last.singlet
        THEN last.veff0mop = ToMO(MSub(MScale(2, last.vj[1]), last.vk[1]))
        ELSE Rerun(<<0, 0, 0>>).de = last.de

\* C4, amended: for a triplet the Coulomb coefficient is zero in the two
\* coupling intermediates veff0mop = -K[1] and veff0mom = -K[2], so the
\* gradient is the same with J[1] and J[2] replaced by zero; veff0doo is
\* 2 J[0] - K[0] for either spin; for a singlet veff0mop is 2 J[1] - K[1].
C4_TripletCouplingOnly ==
    last.op = "grad_elec" =>
        /\ last.veff0doo = MSub(MScale(2, last.vj[0]), last.vk[0])
        /\ last.veff0mom = ToMO(MScale(-1, last.vk[2]))
        /\ IF last.singlet
           THEN last.veff0mop = ToMO(MSub(MScale(2, last.vj[1]), last.vk[1]))
           ELSE /\ last.veff0mop = ToMO(MScale(-1, last.vk[1]))
                /\ Rerun(<<1, 0, 0>>).de = last.de

C4_Witness ==
    /\ last.op = "grad_elec" /\ ~last.singlet
    /\ last.vj[1] # MZeros(3, 3)
    /\ last.vj[0] # MZeros(3, 3)
    /\ Len(last.de) = 2

\* the Z-vector problem of the last grad_elec call, rebuilt from its
\* right-hand side, and the iterate after n updates from the start vector
LastProblem ==
    cphf_problem(orbv_of(mf.mo_coeff, nocc_of(mf.mo_occ)),
                 orbo_of(mf.mo_coeff, nocc_of(mf.mo_occ)), last.wvo,
                 e_ai_of(Masked(mf.mo_energy,
                                [p \in DOMAIN mf.mo_occ |-> mf.mo_occ[p] = 0]),
                         Masked(mf.mo_energy,
                                [p \in DOMAIN mf.mo_occ |-> mf.mo_occ[p] > 0])),
                 self.cphf_max_cycle, self.cphf_conv_tol)

RECURSIVE NthIterate(_, _, _)
NthIterate(c, z, n) ==
    IF n = 0 \/ z # z THEN z    \* (z is computed before the next update)
    ELSE NthIterate(c,
            cphf_update(c.mo1base, fvind(c.orbv, c.orbo, z), c.e_ai), n - 1)

\* C5: the Z-vector solve runs with max_cycle and tol taken from the
\* instance (20 and 1e-8 unless the caller has overridden them); when it
\* does not converge within max_cycle iterations the call logs a warning,
\* goes on with the last iterate as z1 and returns a complete gradient.
C5_NonFatalCPHF ==
    /\ last.op = "init" => self.cphf_max_cycle = 20 /\ self.cphf_conv_tol = 1
    /\ last.op = "grad_elec" =>
        /\ last.cphf.max_cycle = self.cphf_max_cycle
        /\ last.cphf.tol = self.cphf_conv_tol
        /\ last.cphf.ncycle <= self.cphf_max_cycle
        /\ Len(last.de) = Len(ElecAtoms)
        /\ ~last.cphf.converged =>
                /\ last.log = <<"warn: CPHF not converged">>
                /\ last.cphf.ncycle = self.cphf_max_cycle
                /\ last.z1 = NthIterate(LastProblem, LastProblem.mo1base,
                                        self.cphf_max_cycle)
        /\ last.cphf.converged => last.log = <<>>

C5_Witness ==
    /\ last.op = "grad_elec" /\ ~last.cphf.converged
    /\ self.cphf_max_cycle = 1
    /\ last.log # <<>>
    /\ Len(last.de) = 3

\* C7: the gradient has one row of 3 components per entry of atmlst, in
\* the order of the list; row k belongs to atom atmlst[k] and is the same
\* whatever else the list holds and wherever the atom stands in it.
C7_RowsFollowAtomList ==
    last.op = "grad_elec" =>
        /\ Len(last.de) = Len(ElecAtoms)
        /\ last.visited = ElecAtoms
        /\ \A k \in 1..Len(ElecAtoms) :
            /\ Len(last.de[k]) = 3
            /\ last.de[k] = kernel(obj(self, td, mf), last.xy, last.singlet,
                                   Some(<<ElecAtoms[k]>>)).de[1]

C7_Witness ==
    /\ last.op = "grad_elec" /\ last.atmlst = Some(<<1, 1, 0>>)
    /\ last.de[1] = last.de[2]
    /\ last.de[1] # last.de[3]

-----------------------------------------------------------------------------
(* The Density Assembler on its own: the reference supplies an occupation  *)
(* vector over three orbitals, one amplitude pair is assembled.            *)

\* largest absolute value of an amplitude entry
MaxAmp == 1

\* the occupation vectors (entries 0 or 2) with at least one occupied and
\* one virtual orbital, in every index order
OccVectors ==
    {occ \in [1..3 -> {0, 2}] :
        \E p \in 1..3 : occ[p] = 2 /\ \E q \in 1..3 : occ[q] = 0}

\* flat amplitude vectors of nocc*nvir = 2 entries
AmpVectors == [1..2 -> -MaxAmp..MaxAmp]

InitDens ==
    /\ mf \in {MfBig(occ) : occ \in OccVectors}
    /\ td = TdBig
    /\ self = Gradients_init(td)
    /\ last = [op |-> "init"]
    /\ dens = <<>>

\* lines 48-62 of kernel for x_y = (x, y)
Assemble(x, y) ==
    /\ dens = <<>>
    /\ dens' = <<assemble(mf.mo_coeff, mf.mo_occ, <<x, y>>)
                 @@ [x |-> x, y |-> y]>>
    /\ UNCHANGED <<mf, td, self, last>>

NextDens == \E x \in AmpVectors, y \in AmpVectors : Assemble(x, y)

SpecDens == InitDens /\ [][NextDens]_vars

\* entry (i, a) of the nocc x nvir matrix held in a flat vector v
AmpEntry(v, i, a) == v[i * dens[1].nvir + a + 1]

DensOcc == 0..(dens[1].nocc - 1)
DensVir == 0..(dens[1].nvir - 1)

\* C9: xpy = (X+Y)^T, xmy = (X-Y)^T; dvv[a,b] = sum_i xpy[a,i] xpy[b,i] +
\* xmy[a,i] xmy[b,i]; doo[i,j] = -sum_a xpy[a,i] xpy[a,j] + xmy[a,i]
\* xmy[a,j]; both are symmetric, the diagonal of doo is <= 0 and that of
\* dvv is >= 0; with Y = 0, xpy = xmy = X^T and dmzvop = dmzvom.
C9_DensityAssembler ==
    dens # <<>> =>
        /\ DOMAIN dens[1].xpy = DensVir /\ DOMAIN dens[1].xmy = DensVir
        /\ \A a \in DensVir, i \in DensOcc :
            /\ dens[1].xpy[a][i]
                = AmpEntry(dens[1].x, i, a) + AmpEntry(dens[1].y, i, a)
            /\ dens[1].xmy[a][i]
                = AmpEntry(dens[1].x, i, a) - AmpEntry(dens[1].y, i, a)
        /\ \A a \in DensVir, b \in DensVir :
            /\ dens[1].dvv[a][b] = Total([i \in DensOcc |->
                    dens[1].xpy[a][i] * dens[1].xpy[b][i]
                    + dens[1].xmy[a][i] * dens[1].xmy[b][i]])
            /\ dens[1].dvv[a][b] = dens[1].dvv[b][a]
            /\ dens[1].dvv[a][a] >= 0
        /\ \A i \in DensOcc, j \in DensOcc :
            /\ dens[1].doo[i][j] = -Total([a \in DensVir |->
                    dens[1].xpy[a][i] * dens[1].xpy[a][j]
                    + dens[1].xmy[a][i] * dens[1].xmy[a][j]])
            /\ dens[1].doo[i][j] = dens[1].doo[j][i]
            /\ dens[1].doo[i][i] <= 0
        /\ (\A k \in 1..2 : dens[1].y[k] = 0) =>
            /\ dens[1].xpy = dens[1].xmy
            /\ \A a \in DensVir, i \in DensOcc :
                    dens[1].xpy[a][i] = AmpEntry(dens[1].x, i, a)
            /\ dens[1].dmzvop = dens[1].dmzvom

C9_Witness ==
    /\ dens # <<>>
    /\ dens[1].nocc = 2
    /\ dens[1].y = <<0, 0>> /\ dens[1].x = <<1, -1>>
    /\ dens[1].doo[0][1] # 0 /\ dens[1].doo[0][0] < 0

\* the positions whose occupation satisfies a test, in increasing order
OccupiedPositions == Masked([p \in 0..2 |-> p], [p \in 0..2 |-> mf.mo_occ[p] > 0])
VirtualPositions == Masked([p \in 0..2 |-> p], [p \in 0..2 |-> mf.mo_occ[p] = 0])

\* C10: whatever the index order of mo_occ, the occupied block (positions
\* 0..nocc-1) holds exactly the orbitals with occupation > 0 and the
\* virtual block (positions nocc..nmo-1) exactly those with occupation 0,
\* and nocc + nvir = nmo.
C10_PartitionByOccupation ==
    dens # <<>> =>
        /\ dens[1].nocc + dens[1].nvir = dens[1].nmo
        /\ \A p \in 0..(dens[1].nmo - 1) :
                (p < dens[1].nocc) <=> (mf.mo_occ[p] > 0)
        /\ dens[1].orbo = [q \in 0..2 |-> [i \in DensOcc |->
                                mf.mo_coeff[q][OccupiedPositions[i]]]]
        /\ dens[1].orbv = [q \in 0..2 |-> [a \in DensVir |->
                                mf.mo_coeff[q][VirtualPositions[a]]]]

=============================================================================
